---- MODULE Spec2Model ----
(***************************************************************************)
(* Model of src/src/dstruct.py: the NOTEARS dual-ascent schedule of the    *)
(* single learner (lit_NOTEARS) and of the K-member ensemble (DStruct),    *)
(* the ensemble graph extraction and the consensus loss.                   *)
(*                                                                         *)
(* Floats are modelled by integers.  rho, alpha and h are exact integers   *)
(* (the test h_new > 0.25 * h is 4 * h_new > h).  np.inf is the value Inf, *)
(* which every comparison treats apart.  None is the empty tuple and a     *)
(* float v read into h_new is the tuple <<v>>.                             *)
(*                                                                         *)
(* Spec runs the dual-ascent schedule; there the network parameters are    *)
(* not represented, and what a minimisation did to them is seen through    *)
(* the value h_func() returns.  GraphSpec runs the operations that read    *)
(* the K weighted adjacencies: the graph of lit_NOTEARS.A, the ensemble    *)
(* graph, the consensus loss and the closure of the inner minimisation.    *)
(* An adjacency entry is a number of halves (3 is 1.5), so the float 1.0   *)
(* is One.                                                                 *)
(***************************************************************************)
EXTENDS Integers, Sequences, FiniteSets, TLC

\* ------------------------------------------------------------ bounds
K == 2                \* ensemble size (DStruct K)
MaxSteps == 3         \* training steps run on one learner
MaxCalls == 6         \* inner minimisations (optimizer.step) run in total

\* ------------------------------------------------- program constants
F == 10               \* rho *= 10
RhoDefault == 1       \* NOTEARS rho default
AlphaDefault == 1     \* NOTEARS alpha default
Inf == 999999         \* stands for np.inf
Lmbda == 2            \* DStruct lmbda default
One == 2              \* the float 1 written by forward, in halves

\* ----------------------------------------------------- input domains
Learners == {"single", "ensemble"}
SemTypes == {"mlp", "sobolev", "unknown"}
RhoInits == {1, 10, 100}
AlphaInits == {0, 1}
RhoMaxs == {1, 10, 50}
HVals == {-1, 0, 1, 8}      \* values h_func() may return after a minimisation

None == <<>>
Some(v) == <<v>>
Val(o) == o[1]

VARIABLES
  cfg,        \* constructor arguments: learner, sem_type, rho, alpha, rho_max
  pc,         \* "new", "idle", "enter", "loop", "update", "returned", "error"
  notears,    \* per model: the structural model variant built
  rho,        \* per model: NOTEARS.rho
  alpha,      \* per model: NOTEARS.alpha
  h,          \* per model: lit_NOTEARS.h / dsl.h
  esc,        \* per model: number of executions of rho *= 10 so far
  cur,        \* model whose _dual_ascent_step is running
  h_new,      \* local h_new of the running _dual_ascent_step
  iters,      \* loop-body executions of the running _dual_ascent_step
  rho_entry,  \* rho of the model when the running _dual_ascent_step was entered
  ret,        \* value returned by the last _dual_ascent_step
  hs, rhos, alphas,   \* DStruct.training_step lists
  logged,     \* last values handed to self.log / self.log_dict
  steps,      \* training steps started
  calls,      \* optimizer.step calls made
  seen,       \* the values h_new took in the running _dual_ascent_step, in order
  alpha_entry,\* alpha of the model when the running _dual_ascent_step was entered
  opt,        \* the optimizer passed to the running _dual_ascent_step: the
              \* models whose parameters it holds
  adj,        \* per model: the weighted adjacency its parameters give, in halves
  out         \* what the last operation on the adjacencies computed

dual == <<cfg, pc, notears, rho, alpha, h, esc, cur, h_new, iters, rho_entry,
          ret, hs, rhos, alphas, logged, steps, calls, seen, alpha_entry, opt>>

vars == <<cfg, pc, notears, rho, alpha, h, esc, cur, h_new, iters, rho_entry,
          ret, hs, rhos, alphas, logged, steps, calls, seen, alpha_entry, opt,
          adj, out>>

\* The models a learner owns: one for lit_NOTEARS, K for DStruct.
Members(learner) == IF learner = "single" THEN {1} ELSE 1..K

\* NOTEARS.__init__: the variant selected by sem_type.
NotearsVariant(sem_type) == IF sem_type = "mlp" THEN "NotearsMLP" ELSE "NotearsSobolev"

\* Variants of the while condition: the ceiling taken a factor too high, and
\* the ceiling itself let through.
LoopCondLoose(r, rmax) == r < rmax * F
LoopCondInclusive(r, rmax) == r <= rmax

\* while rho < rho_max
LoopCond(r, rmax) == r < rmax

\* Variants of the test: >= for >, and the infinite h taken as exceeded.
ExceedsOrEqual(hn, hprev) == IF hprev = Inf THEN FALSE ELSE 4 * hn >= hprev
ExceedsInfTrue(hn, hprev) == IF hprev = Inf THEN TRUE ELSE 4 * hn > hprev

\* if h_new > 0.25 * h
Exceeds(hn, hprev) == IF hprev = Inf THEN FALSE ELSE 4 * hn > hprev

\* Variant of the escalation: rho += 10.
EscalateAdd(r) == r + F

\* rho *= 10
Escalate(r) == r * F

\* Variant of the multiplier update: alpha -= rho * h_new.
AlphaNextMinus(a, r, hn) == a - r * hn

\* alpha += rho * h_new
AlphaNext(a, r, hn) == a + r * hn

\* configure_optimizers: for each optimizer, the models whose parameters it
\* holds.  DStruct puts the optimizer of all parameters first.
ConfigureOptimizers(learner) ==
  IF learner = "single" THEN <<{1}>> ELSE <<1..K>> \o [i \in 1..K |-> {i}]

\* Variant of the optimizer passed for member i: opts[i].
OptForSameIndex(learner, i) == ConfigureOptimizers(learner)[i]

\* The optimizer training_step passes for member i (i from 1): self.optimizers()
\* for the single learner, opts[i + 1] counted from 0 for the ensemble.
OptFor(learner, i) ==
  IF learner = "single" THEN ConfigureOptimizers(learner)[1]
  ELSE ConfigureOptimizers(learner)[i + 1]

\* Variant of the unpacking of the returned triple: h taken from the rho place.
AcceptedHSwapped(r) == r[2]

\* alpha, rho, h = self._dual_ascent_step(...); self.h = h
AcceptedH(r) == r[3]

\* Variant of sequence maximum: the first element.
SeqFirst(s) == s[1]

Configs ==
  {c \in [learner : Learners, sem_type : SemTypes, rho : RhoInits,
          alpha : AlphaInits, rho_max : RhoMaxs] :
     c.learner = "ensemble" =>
        c.sem_type = "mlp" /\ c.rho = RhoDefault /\ c.alpha = AlphaDefault}

Init ==
  /\ cfg \in Configs
  /\ pc = "new"
  /\ notears = <<>>
  /\ rho = <<>>
  /\ alpha = <<>>
  /\ h = <<>>
  /\ esc = <<>>
  /\ cur = 0
  /\ h_new = None
  /\ iters = 0
  /\ rho_entry = 0
  /\ ret = None
  /\ hs = <<>> /\ rhos = <<>> /\ alphas = <<>>
  /\ logged = None
  /\ steps = 0
  /\ calls = 0
  /\ seen = <<>>
  /\ alpha_entry = 0
  /\ opt = {}
  /\ adj = <<>>
  /\ out = None

\* NOTEARS.__init__ for every member, then lit_NOTEARS.__init__ / DStruct.__init__.
Construct ==
  /\ pc = "new"
  /\ notears' = [i \in Members(cfg.learner) |-> NotearsVariant(cfg.sem_type)]
  /\ rho' = [i \in Members(cfg.learner) |-> cfg.rho]
  /\ alpha' = [i \in Members(cfg.learner) |-> cfg.alpha]
  /\ h' = [i \in Members(cfg.learner) |-> Inf]
  /\ esc' = [i \in Members(cfg.learner) |-> 0]
  /\ pc' = "idle"
  /\ UNCHANGED <<cfg, cur, h_new, iters, rho_entry, ret, hs, rhos, alphas,
                 logged, steps, calls, adj, out,
                 seen, alpha_entry, opt>>

\* training_step up to the first call of _dual_ascent_step.
TrainingStep ==
  /\ pc = "idle"
  /\ steps < MaxSteps
  /\ steps' = steps + 1
  /\ cur' = 1
  /\ hs' = <<>> /\ rhos' = <<>> /\ alphas' = <<>>
  /\ pc' = "enter"
  /\ UNCHANGED <<cfg, notears, rho, alpha, h, esc, h_new, iters, rho_entry,
                 ret, logged, calls, adj, out,
                 seen, alpha_entry, opt>>

\* _dual_ascent_step: h_new = None, then the first test of the while condition.
DualAscentEnter ==
  /\ pc = "enter"
  /\ h_new' = None
  /\ iters' = 0
  /\ rho_entry' = rho[cur]
  /\ alpha_entry' = alpha[cur]
  /\ seen' = <<>>
  /\ opt' = OptFor(cfg.learner, cur)
  /\ pc' = "loop"
  /\ UNCHANGED <<cfg, notears, rho, alpha, h, esc, cur, ret, hs, rhos, alphas,
                 logged, steps, calls, adj, out>>

\* One execution of the loop body: optimizer.step(closure), h_new = h_func(),
\* then either rho *= 10 and back to the while test, or break.
InnerMinimize ==
  /\ pc = "loop"
  /\ LoopCond(rho[cur], cfg.rho_max)
  /\ calls < MaxCalls
  /\ \E hv \in HVals :
       /\ h_new' = Some(hv)
       /\ IF Exceeds(hv, h[cur])
            THEN /\ rho' = [rho EXCEPT ![cur] = Escalate(rho[cur])]
                 /\ esc' = [esc EXCEPT ![cur] = esc[cur] + 1]
                 /\ pc' = "loop"
            ELSE /\ UNCHANGED <<rho, esc>>
                 /\ pc' = "update"
  /\ iters' = iters + 1
  /\ seen' = Append(seen, Val(h_new'))
  /\ calls' = calls + 1
  /\ UNCHANGED <<cfg, notears, alpha, h, cur, rho_entry, ret, hs, rhos, alphas,
                 logged, steps, adj, out,
                 alpha_entry, opt>>

\* The while condition is false: fall through to the alpha update.
LoopExit ==
  /\ pc = "loop"
  /\ ~LoopCond(rho[cur], cfg.rho_max)
  /\ pc' = "update"
  /\ UNCHANGED <<cfg, notears, rho, alpha, h, esc, cur, h_new, iters, rho_entry,
                 ret, hs, rhos, alphas, logged, steps, calls, adj, out,
                 seen, alpha_entry, opt>>

\* alpha += rho * h_new; return alpha, rho, h_new.
\* rho * None raises TypeError, which nothing catches.
AlphaUpdate ==
  /\ pc = "update"
  /\ IF h_new = None
       THEN /\ pc' = "error"
            /\ UNCHANGED <<alpha, ret>>
       ELSE /\ alpha' = [alpha EXCEPT ![cur] = AlphaNext(alpha[cur], rho[cur], Val(h_new))]
            /\ ret' = Some(<<alpha'[cur], rho[cur], Val(h_new)>>)
            /\ pc' = "returned"
  /\ UNCHANGED <<cfg, notears, rho, h, esc, cur, h_new, iters, rho_entry,
                 hs, rhos, alphas, logged, steps, calls, adj, out,
                 seen, alpha_entry, opt>>

RECURSIVE SeqMax(_), SeqMin(_), SeqSum(_)
SeqMax(s) == IF Len(s) = 1 THEN s[1]
             ELSE IF s[1] >= SeqMax(Tail(s)) THEN s[1] ELSE SeqMax(Tail(s))
SeqMin(s) == IF Len(s) = 1 THEN s[1]
             ELSE IF s[1] <= SeqMin(Tail(s)) THEN s[1] ELSE SeqMin(Tail(s))
SeqSum(s) == IF Len(s) = 0 THEN 0 ELSE s[1] + SeqSum(Tail(s))

\* The rest of training_step after _dual_ascent_step returned: h = returned h;
\* the single learner logs the triple, the ensemble appends it and, after the
\* last member, logs max h, min rho and mean alpha (as sum and count).
StepReturn ==
  /\ pc = "returned"
  /\ h' = [h EXCEPT ![cur] = AcceptedH(Val(ret))]
  /\ IF cfg.learner = "single"
       THEN /\ logged' = Some([h |-> Val(ret)[3], rho |-> Val(ret)[2],
                               alpha_sum |-> Val(ret)[1], n |-> 1])
            /\ pc' = "idle"
            /\ UNCHANGED <<cur, hs, rhos, alphas>>
       ELSE /\ hs' = Append(hs, Val(ret)[3])
            /\ rhos' = Append(rhos, Val(ret)[2])
            /\ alphas' = Append(alphas, Val(ret)[1])
            /\ IF cur < K
                 THEN /\ cur' = cur + 1
                      /\ pc' = "enter"
                      /\ UNCHANGED logged
                 ELSE /\ logged' = Some([h |-> SeqMax(hs'), rho |-> SeqMin(rhos'),
                                         alpha_sum |-> SeqSum(alphas'), n |-> Len(alphas')])
                      /\ pc' = "idle"
                      /\ UNCHANGED cur
  /\ UNCHANGED <<cfg, notears, rho, alpha, esc, h_new, iters, rho_entry, ret,
                 steps, calls, adj, out,
                 seen, alpha_entry, opt>>

Next ==
  \/ Construct
  \/ TrainingStep
  \/ DualAscentEnter
  \/ InnerMinimize
  \/ LoopExit
  \/ AlphaUpdate
  \/ StepReturn

Spec == Init /\ [][Next]_vars

\* ------------------------------------------------------------------------
\* The operations that read the K weighted adjacencies (DStruct).

Nodes == {1, 2}
Entries == Nodes \X Nodes
Thresholds == {0, 1, 2}          \* 0, 0.5 and 1.0, in halves

\* Values one entry of a model's weighted adjacency is drawn from, in halves.
EntryVals(e) == IF e = <<1, 2>> THEN {-3, -1, 0, 3}
                ELSE IF e = <<2, 1>> THEN {0, 1}
                ELSE IF e = <<1, 1>> THEN {0, 3} ELSE {0}
AdjInputs == {m \in [Entries -> {-3, -1, 0, 1, 3}] : \A e \in Entries : m[e] \in EntryVals(e)}
WThresholds == {0, 1, 2}         \* w_threshold: 0, 0.5 and 1.0, in halves

Abs(x) == IF x < 0 THEN 0 - x ELSE x

\* Sum over the models 1..k of entry e.
RECURSIVE SumModels(_, _, _)
SumModels(As, e, k) == IF k = 0 THEN 0 ELSE As[k][e] + SumModels(As, e, k - 1)

\* As.mean(axis=0) / torch.stack(As).mean(dim=0), times K: entry e of the mean
\* is MeanNum(As)[e] / K halves.
MeanNum(As) == [e \in Entries |-> SumModels(As, e, K)]

\* Variant of forward: the first mask taken with >= for >.
ForwardNoGradGe(As, threshold) ==
  LET m0 == MeanNum(As)
      m1 == [e \in Entries |-> IF Abs(m0[e]) >= threshold * K THEN One * K ELSE m0[e]]
      m2 == [e \in Entries |-> IF Abs(m1[e]) <= threshold * K THEN 0 ELSE m1[e]]
  IN  m2

\* forward(threshold, grad=False): the two masked assignments, one after the
\* other, on the same array.  Entries are in units of 1/K halves.
ForwardNoGrad(As, threshold) ==
  LET m0 == MeanNum(As)
      m1 == [e \in Entries |-> IF Abs(m0[e]) > threshold * K THEN One * K ELSE m0[e]]
      m2 == [e \in Entries |-> IF Abs(m1[e]) <= threshold * K THEN 0 ELSE m1[e]]
  IN  m2

\* Variant of lit_NOTEARS.A: every nonzero survivor becomes 1.
ExtractAAnyNonzero(B, w_threshold) ==
  LET b1 == [e \in Entries |-> IF Abs(B[e]) < w_threshold THEN 0 ELSE B[e]]
      b2 == [e \in Entries |-> IF b1[e] # 0 THEN One ELSE b1[e]]
  IN  b2

\* lit_NOTEARS.A(grad=False): B_est[np.abs(B_est) < w_threshold] = 0, then
\* B_est[B_est > 0] = 1, on the adjacency B of the learner's model, in halves.
ExtractA(B, w_threshold) ==
  LET b1 == [e \in Entries |-> IF Abs(B[e]) < w_threshold THEN 0 ELSE B[e]]
      b2 == [e \in Entries |-> IF b1[e] > 0 THEN One ELSE b1[e]]
  IN  b2

\* Variant of the mask: the diagonal is not zeroed.
MaskOnes(e) == 1

\* mask = torch.ones(shape); mask.diagonal().zero_()
Mask(e) == IF e[1] = e[2] THEN 0 ELSE 1

\* A_comp after A_comp.diagonal().zero_(), times K.
AComp(As) == [e \in Entries |-> IF e[1] = e[2] THEN 0 ELSE MeanNum(As)[e]]

\* K * (A_est * mask - A_comp) for model j.
Residual(As, j) == [e \in Entries |-> K * As[j][e] * Mask(e) - AComp(As)[e]]

RECURSIVE SumSet(_, _)
SumSet(f, S) == IF S = {} THEN 0
                ELSE LET x == CHOOSE y \in S : TRUE IN f[x] + SumSet(f, S \ {x})

\* d Residual(As, j)[e] / d As[i][e]: A_comp stays in the autograd graph
\* (A_comp.detach() returns a new tensor, which is dropped).
DResidual(i, j, e) == (IF i = j THEN K * Mask(e) ELSE 0) - (IF e[1] = e[2] THEN 0 ELSE 1)

\* _loss(): the sum over the models of mse(A_est * mask, A_comp), as a tensor of
\* the autograd graph: its value and its gradient in the entries of model i's
\* adjacency.  Both are in units of 1 / (4 * K^2 * dim^2).
Loss(As, i) ==
  [val  |-> SumSet([j \in 1..K |->
                      SumSet([e \in Entries |-> Residual(As, j)[e] * Residual(As, j)[e]],
                             Entries)], 1..K),
   grad |-> [e \in Entries |->
               SumSet([j \in 1..K |-> 2 * Residual(As, j)[e] * DResidual(i, j, e)], 1..K)]]

ZeroGrad == [e \in Entries |-> 0]

\* tensor.item(): a Python float, outside the autograd graph.
Item(t) == [val |-> t.val, grad |-> ZeroGrad]

\* tensor + tensor, number * tensor
TAdd(s, t) == [val |-> s.val + t.val, grad |-> [e \in Entries |-> s.grad[e] + t.grad[e]]]
TScale(c, t) == [val |-> c * t.val, grad |-> [e \in Entries |-> c * t.grad[e]]]

\* What dsl(x) may return as its loss: value and gradient in the entries of the
\* model's adjacency, in the units of Loss.
DslLosses == {[val |-> 0, grad |-> ZeroGrad], [val |-> 5, grad |-> [e \in Entries |-> 1]]}

\* closure() of model i: the loss it hands to manual_backward and returns.
ClosureLoss(As, i, dsl_loss) == TAdd(dsl_loss, TScale(Lmbda, Item(Loss(As, i))))

EnsembleConfig == CHOOSE c \in Configs : c.learner = "ensemble" /\ c.rho_max = 50

\* A constructed ensemble whose members' parameters give any adjacencies.
GraphInit ==
  /\ cfg = EnsembleConfig
  /\ pc = "idle"
  /\ notears = [i \in 1..K |-> NotearsVariant(cfg.sem_type)]
  /\ rho = [i \in 1..K |-> cfg.rho]
  /\ alpha = [i \in 1..K |-> cfg.alpha]
  /\ h = [i \in 1..K |-> Inf]
  /\ esc = [i \in 1..K |-> 0]
  /\ cur = 0
  /\ h_new = None
  /\ iters = 0
  /\ rho_entry = 0
  /\ ret = None
  /\ hs = <<>> /\ rhos = <<>> /\ alphas = <<>>
  /\ logged = None
  /\ steps = 0
  /\ calls = 0
  /\ seen = <<>>
  /\ alpha_entry = 0
  /\ opt = {}
  /\ adj \in [1..K -> AdjInputs]
  /\ out = None

\* DStruct.A(threshold), as test_step calls it for each threshold of the range.
EnsembleGraph ==
  \E t \in Thresholds :
    /\ out' = Some([op |-> "A", threshold |-> t, graph |-> ForwardNoGrad(adj, t)])
    /\ UNCHANGED <<dual, adj>>

\* One evaluation of the closure of model i.
Closure ==
  \E i \in 1..K, d \in DslLosses :
    /\ out' = Some([op |-> "closure", model |-> i, dsl |-> d, mse |-> Loss(adj, i),
                    loss |-> ClosureLoss(adj, i, d)])
    /\ UNCHANGED <<dual, adj>>

\* The optimizer of model i moves model i's parameters between two evaluations
\* of the closure.
ParamUpdate ==
  \E i \in 1..K, m \in AdjInputs :
    /\ m # adj[i]
    /\ adj' = [adj EXCEPT ![i] = m]
    /\ out' = None
    /\ UNCHANGED dual

\* lit_NOTEARS.A() of a learner whose model is member i, as its test_step calls it.
ExtractGraph ==
  \E i \in 1..K, w \in WThresholds :
    /\ out' = Some([op |-> "extract", model |-> i, w_threshold |-> w,
                    graph |-> ExtractA(adj[i], w)])
    /\ UNCHANGED <<dual, adj>>

GraphNext ==
  \/ EnsembleGraph
  \/ Closure
  \/ ParamUpdate
  \/ ExtractGraph

GraphSpec == GraphInit /\ [][GraphNext]_vars

\* ------------------------------------------------------------------------
\* Properties.

RECURSIVE Pow(_, _)
Pow(b, n) == IF n = 0 THEN 1 ELSE b * Pow(b, n - 1)

\* The least n >= 0 with r * F^n >= rmax, for r > 0.
RECURSIVE NeededEsc(_, _)
NeededEsc(r, rmax) == IF r >= rmax THEN 0 ELSE 1 + NeededEsc(r * F, rmax)

\* C1: the rho of every model is always its initial value times F^k, k the
\* number of escalations made on it so far; from one state to the next it
\* never decreases, and it changes only by one escalation (times F) made in
\* the loop body of that model's own step.
C1_RhoPowerOfF ==
  /\ [](\A i \in DOMAIN rho : rho[i] = cfg.rho * Pow(F, esc[i]))
  /\ [][\A i \in DOMAIN rho :
          /\ rho'[i] >= rho[i]
          /\ rho'[i] # rho[i] =>
               /\ pc = "loop" /\ cur = i /\ h_new' # None
               /\ rho'[i] = F * rho[i]
               /\ esc'[i] = esc[i] + 1]_vars

C1_Witness == \E i \in DOMAIN rho : esc[i] = 2 /\ rho[i] = 100 * cfg.rho

\* C2: a model whose initial rho is at most rho_max * F never has a rho above
\* rho_max * F.
C2_RhoCeiling ==
  \A i \in DOMAIN rho : cfg.rho <= cfg.rho_max * F => rho[i] <= cfg.rho_max * F

\* An escalation entered below the ceiling has overshot it.
C2_Witness ==
  \E i \in DOMAIN rho : esc[i] > 0 /\ rho[i] > cfg.rho_max /\ cfg.rho < cfg.rho_max

\* C3: on a learner constructed with 0 < rho < rho_max no training step ends
\* in an error.
C3_NoFatalStep == (0 < cfg.rho /\ cfg.rho < cfg.rho_max) => pc # "error"

\* C4: when the alpha update is reached, h_new has been evaluated.
C4_HNewEvaluated == pc = "update" => h_new # None

\* C5: alpha changes only in the alpha update of the model's own step, and
\* there, with rho > 0 and h_new >= 0, it does not decrease.
C5_AlphaNonDecreasing ==
  [][\A i \in DOMAIN alpha :
       /\ alpha'[i] # alpha[i] => pc = "update" /\ cur = i
       /\ (pc = "update" /\ cur = i /\ pc' = "returned" /\ rho[i] > 0 /\ Val(h_new) >= 0)
             => alpha'[i] >= alpha[i]]_vars

C5_Witness ==
  /\ pc = "returned"
  /\ Val(h_new) > 0
  /\ rho[cur] > 0
  /\ alpha[cur] > cfg.alpha
  /\ Val(ret)[1] = alpha[cur]

\* C6: in a step entered with rho_entry > 0 the loop body has run at most n
\* times, n the least integer with rho_entry * F^n >= rho_max; so with rho_max
\* equal to the initial rho it runs at most once in a step.
C6_LoopBound ==
  pc \in {"loop", "update", "returned"} =>
     /\ rho_entry > 0 => iters <= NeededEsc(rho_entry, cfg.rho_max)
     /\ cfg.rho_max = cfg.rho => iters <= 1

\* The bound is met: two escalations in one step, from 1 to a ceiling of 50.
C6_Witness ==
  /\ pc = "update"
  /\ iters = 2
  /\ NeededEsc(rho_entry, cfg.rho_max) = 2
  /\ rho[cur] >= cfg.rho_max

\* C7: the ensemble graph has entry 1 exactly where |mean| > threshold, and 0
\* elsewhere, for every threshold of the range.
C7_SymmetricBinarize ==
  (out # None /\ Val(out).op = "A") =>
     \A e \in Entries :
        /\ Val(out).graph[e] \in {0, One * K}
        /\ Val(out).graph[e] = One * K <=>
              Abs(MeanNum(adj)[e]) > Val(out).threshold * K

\* C8: no model is constructed for a sem_type other than "mlp" and "sobolev".
C8_UnknownSemTypeRejected == cfg.sem_type \notin {"mlp", "sobolev"} => pc = "new"

\* C9: the loss the closure of model i hands to the optimizer, value and
\* gradient, is the loss of model i plus lmbda times the consensus loss of the
\* current adjacencies.
C9_ClosureObjective ==
  (out # None /\ Val(out).op = "closure") =>
     Val(out).loss = TAdd(Val(out).dsl, TScale(Lmbda, Loss(adj, Val(out).model)))

\* All models have the same off-diagonal entries.
SameOffDiagonal(As) ==
  \A i, j \in 1..K : \A e \in Entries : e[1] # e[2] => As[i][e] = As[j][e]

\* The adjacencies with every diagonal entry replaced by d.
WithDiagonal(As, d) ==
  [i \in 1..K |-> [e \in Entries |-> IF e[1] = e[2] THEN d ELSE As[i][e]]]

\* C10: the consensus loss is zero exactly when all models have the same
\* off-diagonal entries, and it is the loss of the same adjacencies with any
\* other diagonal.
C10_ConsensusZeroIffEqual ==
  (out # None /\ Val(out).op = "closure") =>
     /\ Val(out).mse.val = 0 <=> SameOffDiagonal(adj)
     /\ Val(out).mse.val >= 0
     /\ \A d \in {0, 3} :
          Val(out).mse.val = Loss(WithDiagonal(adj, d), Val(out).model).val

\* The loss is zero for two models that differ on the diagonal only.
C10_Witness ==
  /\ out # None /\ Val(out).op = "closure"
  /\ Val(out).mse.val = 0
  /\ adj[1][<<1, 1>>] # adj[2][<<1, 1>>]
  /\ adj[1][<<1, 2>>] # 0

\* The diagonal of a matrix is zero.
ZeroDiagonal(M) == \A e \in Entries : e[1] = e[2] => M[e] = 0

\* C11: when every model's weighted adjacency has a zero diagonal, the graph
\* of lit_NOTEARS.A and the graph of DStruct.A have a zero diagonal, for every
\* threshold of the range [0, 1].
C11_ZeroDiagonal ==
  out # None =>
     /\ (Val(out).op = "extract" /\ ZeroDiagonal(adj[Val(out).model]))
           => ZeroDiagonal(Val(out).graph)
     /\ (Val(out).op = "A" /\ \A i \in 1..K : ZeroDiagonal(adj[i]))
           => ZeroDiagonal(Val(out).graph)

\* An ensemble graph at threshold 0 with an edge, from zero-diagonal models.
C11_Witness ==
  /\ out # None /\ Val(out).op = "A" /\ Val(out).threshold = 0
  /\ \A i \in 1..K : ZeroDiagonal(adj[i])
  /\ Val(out).graph[<<1, 2>>] = One * K

\* C17: lit_NOTEARS.A maps an entry w to 0 when |w| < w_threshold, to 1 when
\* w >= w_threshold and w > 0, and leaves it as it is when w < 0 and
\* |w| >= w_threshold.
C17_SignBasedRule ==
  (out # None /\ Val(out).op = "extract") =>
     \A e \in Entries :
        LET w == adj[Val(out).model][e]
            t == Val(out).w_threshold
            g == Val(out).graph[e]
        IN  /\ Abs(w) < t => g = 0
            /\ (w >= t /\ w > 0) => g = One
            /\ (w < 0 /\ Abs(w) >= t) => g = w

\* A negative entry survived the threshold and was left as it is.
C17_Witness ==
  /\ out # None /\ Val(out).op = "extract" /\ Val(out).w_threshold = 2
  /\ adj[Val(out).model][<<1, 2>>] = -3
  /\ Val(out).graph[<<1, 2>>] = -3
  /\ adj[Val(out).model][<<2, 1>>] = 1
  /\ Val(out).graph[<<2, 1>>] = 0

RECURSIVE SumTo(_, _)
SumTo(f, n) == IF n = 0 THEN 0 ELSE f[n] + SumTo(f, n - 1)

\* C12: after the K steps of an ensemble training step the lists hold the
\* triples the K steps returned, and the values logged are the maximum of the
\* h, the minimum of the rho and the mean of the alpha (their sum over K).
C12_Aggregates ==
  (cfg.learner = "ensemble" /\ pc = "idle" /\ logged # None) =>
     /\ Len(hs) = K /\ Len(rhos) = K /\ Len(alphas) = K
     /\ \A i \in 1..K : hs[i] = h[i] /\ rhos[i] = rho[i] /\ alphas[i] = alpha[i]
     /\ \E i \in 1..K : Val(logged).h = hs[i]
     /\ \A i \in 1..K : Val(logged).h >= hs[i]
     /\ \E i \in 1..K : Val(logged).rho = rhos[i]
     /\ \A i \in 1..K : Val(logged).rho <= rhos[i]
     /\ Val(logged).alpha_sum = SumTo(alphas, K)
     /\ Val(logged).n = K

\* The maximum h and the minimum rho are those of the last member, not the first.
C12_Witness ==
  /\ cfg.learner = "ensemble" /\ pc = "idle" /\ logged # None
  /\ hs[1] < hs[K] /\ Val(logged).h = hs[K]
  /\ rhos[1] > rhos[K] /\ Val(logged).rho = rhos[K]
  /\ alphas[1] # alphas[K]

\* h_new <= 0.25 * h_prev
WithinQuarter(hn, hprev) == hprev = Inf \/ 4 * hn <= hprev

\* How many values of the sequence exceed 0.25 * h_prev.
RECURSIVE CountExceeding(_, _)
CountExceeding(s, hprev) ==
  IF Len(s) = 0 THEN 0
  ELSE (IF WithinQuarter(s[1], hprev) THEN 0 ELSE 1) + CountExceeding(Tail(s), hprev)

\* C13: once the loop is left with an h_new to update alpha with, rho >= rho_max
\* or the last h_new is within 0.25 * h_prev; and in every state of the step rho
\* is its value at entry times F once for each minimisation of the step whose
\* h_new exceeded 0.25 * h_prev.
C13_LoopExitConditions ==
  /\ (pc \in {"update", "returned"} /\ h_new # None) =>
        /\ Val(h_new) = seen[Len(seen)]
        /\ rho[cur] >= cfg.rho_max \/ WithinQuarter(Val(h_new), h[cur])
  /\ pc \in {"loop", "update", "returned"} =>
        rho[cur] = rho_entry * Pow(F, CountExceeding(seen, h[cur]))

\* The loop was left by the ceiling, after two escalations, without progress.
C13_Witness ==
  /\ pc = "returned"
  /\ Len(seen) = 2
  /\ ~WithinQuarter(Val(h_new), h[cur])
  /\ rho[cur] >= cfg.rho_max
  /\ rho[cur] = 100 * rho_entry

\* C14: a dual-ascent step does not end without having updated alpha; alpha is
\* untouched until the loop is left, and the step returns with alpha =
\* alpha at entry + rho * h_new, h_new the value read after the last
\* minimisation, and the triple (alpha, rho, h_new).
C14_AlphaUpdatedOnce ==
  /\ pc # "error"
  /\ pc \in {"loop", "update"} => alpha[cur] = alpha_entry
  /\ pc = "returned" =>
        /\ Len(seen) >= 1
        /\ alpha[cur] = alpha_entry + rho[cur] * seen[Len(seen)]
        /\ Val(ret) = <<alpha[cur], rho[cur], seen[Len(seen)]>>

\* The same on the steps that run at least one minimisation.
C14_OnStepsThatMinimise ==
  /\ pc \in {"loop", "update"} => alpha[cur] = alpha_entry
  /\ pc = "returned" =>
        /\ Len(seen) >= 1
        /\ alpha[cur] = alpha_entry + rho[cur] * seen[Len(seen)]
        /\ Val(ret) = <<alpha[cur], rho[cur], seen[Len(seen)]>>

\* Model i has not yet finished a step.
NoStepDone(i) ==
  \/ steps = 0
  \/ steps = 1 /\ pc \in {"enter", "loop", "update", "returned", "error"} /\ cur <= i

\* C15: the h of a model changes only when that model's step has returned,
\* and is then set to the h the step returned, the last h_new; so it is the
\* same through the whole loop, and it is Inf until the model's first step
\* has returned.
C15_HPrevFrame ==
  /\ [][\A i \in DOMAIN h :
          /\ h'[i] # h[i] => pc = "returned" /\ cur = i
          /\ (pc = "returned" /\ cur = i /\ pc' # "returned") =>
                h'[i] = Val(ret)[3] /\ h'[i] = Val(h_new)]_vars
  /\ [](\A i \in DOMAIN h : NoStepDone(i) => h[i] = Inf)

\* A second step compares against the h its first step returned.
C15_Witness ==
  /\ pc = "loop" /\ steps = 2 /\ iters = 1
  /\ h[cur] = 1 /\ Val(h_new) = 8

\* C16: while the step of model cur runs, the rho, alpha and h of every other
\* model stay as they are, and the optimizer in use holds the parameters of
\* model cur only.
C16_OtherModelsUntouched ==
  /\ [][(pc \in {"enter", "loop", "update", "returned"}) =>
          \A j \in DOMAIN rho :
             j # cur => (rho'[j] = rho[j] /\ alpha'[j] = alpha[j] /\ h'[j] = h[j])]_vars
  /\ [](pc \in {"loop", "update", "returned"} => opt = {cur})

\* The second member has escalated in its own step; the first has not.
C16_Witness ==
  /\ cfg.learner = "ensemble" /\ cur = 2 /\ pc = "loop" /\ iters >= 1
  /\ opt = {2}
  /\ rho[2] > rho[1]

\* C18: in the first step of a model constructed with rho < rho_max there is
\* one minimisation and no escalation: rho stays the initial rho and alpha
\* becomes the initial alpha + the initial rho * h_new.
C18_FirstStepNoEscalation ==
  (cfg.rho < cfg.rho_max /\ pc \in {"loop", "update", "returned"} /\ h[cur] = Inf) =>
     /\ rho[cur] = cfg.rho /\ esc[cur] = 0
     /\ pc = "loop" => iters = 0
     /\ pc \in {"update", "returned"} => iters = 1
     /\ pc = "returned" => alpha[cur] = cfg.alpha + cfg.rho * Val(h_new)

C18_Witness ==
  /\ cfg.rho < cfg.rho_max /\ pc = "returned" /\ h[cur] = Inf
  /\ Val(h_new) = 8 /\ iters = 1
  /\ alpha[cur] = cfg.alpha + 8 * cfg.rho

AllPositive(s) == \A k \in 1..Len(s) : s[k] > 0

\* C19: in a step entered with rho < rho_max and h_prev >= 0 whose first
\* minimisation gives h_new = 0, that minimisation is the only one, rho and
\* alpha stay as they were and h becomes 0; in a step entered with h_prev = 0
\* whose minimisations all give h_new > 0, rho is escalated after each of them
\* and the loop is left only with rho >= rho_max.
C19_ZeroFixedPoint ==
  /\ []((/\ pc \in {"loop", "update", "returned"}
         /\ rho_entry < cfg.rho_max /\ h[cur] >= 0
         /\ Len(seen) >= 1 /\ seen[1] = 0)
        => /\ pc # "loop" /\ Len(seen) = 1
           /\ rho[cur] = rho_entry /\ alpha[cur] = alpha_entry)
  /\ [][(pc = "returned" /\ seen = <<0>> /\ pc' # "returned") => h'[cur] = 0]_vars
  /\ []((pc \in {"loop", "update", "returned"} /\ h[cur] = 0 /\ AllPositive(seen))
        => /\ rho[cur] = rho_entry * Pow(F, Len(seen))
           /\ pc # "loop" => rho[cur] >= cfg.rho_max)

\* The fixed point: h_prev = 0 and h_new = 0, nothing changed.
C19_Witness ==
  /\ pc = "returned" /\ seen = <<0>> /\ h[cur] = 0
  /\ rho[cur] = rho_entry /\ alpha[cur] = alpha_entry
  /\ rho_entry < cfg.rho_max

\* The converse case: from h_prev = 0, two positive h_new, two escalations.
C19_WitnessEscalated ==
  /\ pc = "update" /\ h[cur] = 0 /\ Len(seen) = 2 /\ AllPositive(seen)
  /\ rho[cur] = 100 * rho_entry

====
